---- MODULE Spec2Model ----
(***************************************************************************)
(* A model of cellml.api.pmr2.utility: the URL fetch gate (loadURL), the   *)
(* import resolver (loadModel), the foreign iteration adapter              *)
(* (makeGenerator), extractMaths and exportCeleds.                         *)
(*                                                                         *)
(* Python strings that are used as URLs are modelled by their urlparse     *)
(* decomposition: a scheme, the part of the rest up to and including the   *)
(* last "/" (dir, the network location included) and the last path         *)
(* segment (file).  The empty string has all three parts empty.            *)
(***************************************************************************)
EXTENDS Integers, Sequences, FiniteSets, TLC

VARIABLES
    model_url,   \* loadModel's argument
    down,        \* the URLs the network fails to serve during the call
    pc,          \* position of the loadModel call
    model,       \* the root ModelNode (local `model`), "None" before line 120
    importq,     \* the work queue (local `importq`)
    base,        \* local `base`: the popped frame's base, then what line 130 stores
    imports,     \* the Imports of the popped frame the for loop has yet to take
    imported,    \* Import object -> its instantiated model ("None": empty slot)
    trace,       \* the fetches attempted for Import objects, in order
    urlopened,   \* the locations handed to urllib2.urlopen
    err,         \* the exception that left loadModel, if any
    target,      \* the object makeGenerator is called on
    iters,       \* the iterator objects its produce-iterator methods returned
    gens,        \* the generators makeGenerator returned
    lastcall,    \* the latest makeGenerator call: its arguments and outcome
    calls,       \* the loadModel calls that ended on this utility, in order
    approved_protocol,  \* self.approved_protocol
    celeds_exporter,    \* self.celeds_exporter: key -> exporter
    cmodel,      \* the model handed to extractMaths and exportCeleds
    lastop       \* the latest extractMaths or exportCeleds call and its outcome

lvars == <<model_url, down, pc, model, importq, base, imports, imported,
           trace, urlopened, err, calls>>

gvars == <<target, iters, gens, lastcall>>

uvars == <<approved_protocol, celeds_exporter, cmodel, lastop>>

vars == <<lvars, gvars, uvars>>

-----------------------------------------------------------------------------
(* Bounds *)

\* Import objects deeper than this below the root are processed like every
\* other Import but their slots are not recorded (they carry the id Deep).
MaxDepth == 2

\* The most iterator objects makeGenerator may obtain from the target.
MaxGens == 2

\* The most elements requested from one generator.
MaxPulls == 3

\* The most loadModel calls made on one utility.
MaxCalls == 2

\* The most components of a model handed to extractMaths.
MaxComponents == 2

-----------------------------------------------------------------------------
(* Strings and URLs *)

Str(s, d, f) == [scheme |-> s, dir |-> d, file |-> f]

EmptyStr == Str("", "", "")

R == "//h/"

D == "//h/d/"

H(d, f) == Str("http", d, f)

F(d, f) == Str("ftp", d, f)

Rel(f) == Str("", "", f)

\* urlparse.urljoin(base, url) for the strings above: an empty base or url
\* gives the other one; a url with a scheme of its own (and a network
\* location) is returned unchanged; otherwise the url is relative and takes
\* the scheme of the base and, unless it has a directory of its own, the
\* directory of the base.
urljoin(b, url) ==
    IF b = EmptyStr THEN url
    ELSE IF url = EmptyStr THEN b
    ELSE IF url.scheme # "" THEN url
    ELSE IF url.dir # "" THEN Str(b.scheme, url.dir, url.file)
    ELSE Str(b.scheme, b.dir, url.file)

\* urlparse.urlparse(location).scheme
urlscheme(location) == location.scheme

-----------------------------------------------------------------------------
(* The documents of the web and the network *)

None == [none |-> TRUE]

\* What the model loader reads in a document text: the declared xml:base
\* (EmptyStr: none), the hrefs of the declared imports, and the callable
\* members of the iterator its import collection hands out.
DocText(xb, hs, im) == [xmlBase |-> xb, hrefs |-> hs, imeth |-> im]

DocIds == {"leaf", "two", "over", "chain", "self", "ping", "pong", "mixed", "odd",
           "bad", "wide"}

Doc(d) ==
    CASE d = "leaf"  -> DocText(EmptyStr, <<>>, {"nextImport"})
      [] d = "two"   -> DocText(EmptyStr, <<Rel("leaf"), Rel("over")>>, {"nextImport"})
      [] d = "over"  -> DocText(H(D, ""), <<Rel("leaf")>>, {"nextImport"})
      [] d = "chain" -> DocText(EmptyStr, <<Rel("two")>>, {"nextImport"})
      [] d = "self"  -> DocText(EmptyStr, <<Rel("self")>>, {"nextImport"})
      [] d = "ping"  -> DocText(EmptyStr, <<Rel("pong")>>, {"nextImport"})
      [] d = "pong"  -> DocText(EmptyStr, <<H(R, "ping")>>, {"nextImport"})
      [] d = "mixed" -> DocText(EmptyStr, <<F(R, "leaf"), H(R, "over")>>, {"nextImport"})
      [] d = "odd"   -> DocText(EmptyStr, <<Rel("leaf")>>, {"next"})
      [] d = "bad"   -> DocText(EmptyStr, <<H(R, "over"), H(R, "odd")>>, {"nextImport"})
      [] d = "wide"  -> DocText(EmptyStr, <<H(R, "over"), H(R, "chain")>>, {"nextImport"})

\* The text of document d as a string: it starts with "<", so urlparse finds
\* no scheme in it; dir stands for the part of the text urljoin would keep
\* in front of a relative url.
Body(d) == Str("", "<" \o d \o "</", "model>")

\* The locations loadModel is called with.
Roots ==
    {H(R, d) : d \in DocIds \ {"pong"}}
        \cup {F(R, "two"), H(R, "nope"), Rel("two"), Str("gopher", R, "two")}

\* The locations that may be out of reach during a call.
Flaky == {H(R, "leaf"), H(D, "leaf"), H(R, "over"), F(R, "leaf"), H(R, "two")}

\* Both servers hold every document under both directories.
Served(u) ==
    /\ u.scheme \in {"http", "ftp"}
    /\ u.dir \in {R, D}
    /\ u.file \in DocIds
    /\ u \notin down

\* urllib2.urlopen(location) and fd.read(): a location without a scheme is a
\* ValueError (unknown url type), one with a scheme no handler takes and one
\* the network does not serve are a URLError, else the document's text.
urlopen(location) ==
    IF location.scheme = "" THEN [exc |-> "ValueError", body |-> EmptyStr]
    ELSE IF Served(location) THEN [exc |-> "None", body |-> Body(location.file)]
    ELSE [exc |-> "URLError", body |-> EmptyStr]

-----------------------------------------------------------------------------
(* CellMLAPIUtility: the fetch gate *)

\* Line 87 tests the bound method object self._validateProtocol itself, which
\* is true of every location; the method is not called.
validateProtocolTested(location) == TRUE

\* loadURL(location): the exception raised ("None": none), the text
\* returned, and whether urlopen was called.
loadURL(location) ==
    IF ~validateProtocolTested(location)
    THEN [exc |-> "ValueError", body |-> EmptyStr, opened |-> FALSE]
    ELSE [exc |-> urlopen(location).exc, body |-> urlopen(location).body,
          opened |-> TRUE]

\* model_loader.createFromText(text) and Import.instantiateFromText(text)
createFromText(text) == CHOOSE d \in DocIds : Body(d) = text

-----------------------------------------------------------------------------
(* makeGenerator *)

\* An object handed to makeGenerator: its class name, its callable members
\* (meth), its other members (attr), and the iterator its produce-iterator
\* methods return: that object's class, members, and the values its advance
\* methods return one after the other (None ever after).
Target(c, m, a, ic, im, ia, its) ==
    [cls |-> c, meth |-> m, attr |-> a,
     icls |-> ic, imeth |-> im, iattr |-> ia, items |-> its]

\* The iterator object a produce-iterator call on obj returns.
IterObj(obj) == [cls |-> obj.icls, meth |-> obj.imeth, attr |-> obj.iattr]

NoError == [exc |-> "None", cls |-> "", name |-> "", why |-> ""]

getcallable_hasattrOnly(obj, name) ==
    IF name \notin obj.meth \cup obj.attr
    THEN [exc |-> "TypeError", cls |-> obj.cls, name |-> name,
          why |-> "is not iterable with"]
    ELSE NoError

\* getcallable(obj, name): the TypeError raised, or NoError.
getcallable(obj, name) ==
    IF name \notin obj.meth \cup obj.attr
    THEN [exc |-> "TypeError", cls |-> obj.cls, name |-> name,
          why |-> "is not iterable with"]
    ELSE IF name \notin obj.meth
    THEN [exc |-> "TypeError", cls |-> obj.cls, name |-> name,
          why |-> "is not callable"]
    ELSE NoError

NoKey == "None"

iteratorName_explicitFirst(key, iterator) ==
    IF iterator # "iterate" THEN iterator
    ELSE IF key # NoKey THEN "iterate" \o key \o "s" ELSE iterator

\* Lines 219-221: the names makeGenerator looks up.
iteratorName(key, iterator) ==
    IF key # NoKey THEN "iterate" \o key \o "s" ELSE iterator

nextName(key, next) ==
    IF key # NoKey THEN "next" \o key ELSE next

makeGenerator_lazyNext(obj, key, iterator, next) ==
    LET iname == iteratorName(key, iterator)
        nname == nextName(key, next)
        e1 == getcallable(obj, iname)
    IN  IF e1.exc # "None"
        THEN [error |-> e1, iname |-> iname, nname |-> nname, invoked |-> FALSE]
        ELSE [error |-> NoError, iname |-> iname, nname |-> nname,
              invoked |-> TRUE]

\* makeGenerator(obj, key, iterator, next) up to its return: the error
\* raised, the names resolved, and whether the produce-iterator method was
\* invoked (line 223) before the call ended.
makeGenerator(obj, key, iterator, next) ==
    LET iname == iteratorName(key, iterator)
        nname == nextName(key, next)
        e1 == getcallable(obj, iname)
        e2 == getcallable(IterObj(obj), nname)
    IN  IF e1.exc # "None"
        THEN [error |-> e1, iname |-> iname, nname |-> nname, invoked |-> FALSE]
        ELSE [error |-> e2, iname |-> iname, nname |-> nname, invoked |-> TRUE]

\* What the underlying advance method returns on its k-th call.
advance(items, k) == IF k <= Len(items) THEN items[k] ELSE None

\* list(generator): the values advance returns from call k on, up to the
\* first None (line 205), which ends the generator.
drainFrom(items, k) ==
    LET stops == {j \in k..Len(items) : advance(items, j) = None}
        last == IF stops = {} THEN Len(items)
                ELSE (CHOOSE j \in stops : \A i \in stops : j <= i) - 1
    IN  SubSeq(items, k, last)

-----------------------------------------------------------------------------
(* CellMLAPIUtility: construction, extractMaths and exportCeleds *)

\* The CeLEDS definition files of the resource directory, by their names
\* without the extension (line 76).
CeledsFiles == {"C", "MATLAB", "Python"}

\* Line 77: the exporter made of the definition file named key.
createExporterFromText(key) == [celeds |-> key]

\* _initiateCeLEDS over the definition files found: one exporter under the
\* key of each file.
_initiateCeLEDS(files) == [key \in files |-> createExporterFromText(key)]

\* Line 46.
approved_protocol_default == {"http", "https"}

\* A Python list given as an argument; None stands for no list.
List(items) == [list |-> items]

\* Truth of an optional list: None and the empty list are false.
truthy(language) == language # None /\ language.list # <<>>

\* exporter.generateCode(model)
generateCode(exporter, m) == [code |-> exporter.celeds, model |-> m]

NoDict == [key \in {} |-> None]

\* exportCeleds(model, language) with the exporters exp: the exception that
\* leaves it and the dictionary returned.  Line 180 reads the name k, which
\* no assignment binds: when an exporter is iterated and language is true
\* the test raises NameError.
exportCeleds(exp, m, language) ==
    IF DOMAIN exp # {} /\ truthy(language)
    THEN [exc |-> "NameError", result |-> NoDict]
    ELSE [exc |-> "None",
          result |-> [key \in DOMAIN exp |-> generateCode(exp[key], m)]]

\* A component: its cmeta:id ("" when it has none), its name and its math
\* nodes; a model: its components.
Component(id, n, ms) == [cmetaId |-> id, name |-> n, math |-> ms]

ModelOf(cs) == [components |-> cs]

\* model.getallComponents()
getallComponents(m) ==
    Target("CellMLComponentSet", {"iterateComponents"}, {},
           "CellMLComponentIterator", {"nextComponent"}, {}, m.components)

\* component.getmath()
getmath(component) ==
    Target("MathList", {"iterate"}, {},
           "MathMLElementIterator", {"next"}, {}, component.math)

\* A math node of a component, known by its content.
Node(content) == [mathml |-> content]

\* cellml_bootstrap.serialiseNode(node): the XML text of the node.
serialiseNode(node) == "<math>" \o node.mathml \o "</math>"

label_nameFirst(component) ==
    IF component.name # "" THEN component.name ELSE component.cmetaId

\* Line 158: component.getcmetaId() or component.getname()
label(component) ==
    IF component.cmetaId # "" THEN component.cmetaId ELSE component.name

\* Lines 159-160: the serialised math nodes of one component.
mathsOf(component) ==
    LET nodes == drainFrom(getmath(component).items, 1)
    IN  [j \in 1..Len(nodes) |-> serialiseNode(nodes[j])]

\* extractMaths(model): the exception that leaves it and the list returned.
extractMaths(m) ==
    LET gen == makeGenerator(getallComponents(m), "Component", "iterate", "next")
        components == drainFrom(getallComponents(m).items, 1)
        bad == {k \in 1..Len(components) :
                   makeGenerator(getmath(components[k]), NoKey, "iterate",
                                 "next").error.exc # "None"}
    IN  IF gen.error.exc # "None" \/ bad # {}
        THEN [exc |-> "TypeError", results |-> <<>>]
        ELSE [exc |-> "None",
              results |-> [k \in 1..Len(components) |->
                              <<label(components[k]), mathsOf(components[k])>>]]

\* The components and models handed to extractMaths.
Components ==
    {Component("", "membrane", <<>>),
     Component("c1", "sodium", <<Node("a"), Node("b")>>),
     Component("", "", <<Node("b")>>)}

Models ==
    {ModelOf(cs) : cs \in UNION {[1..n -> Components] : n \in 0..MaxComponents}}

\* The language arguments given to exportCeleds.
LanguageArgs ==
    {None, List(<<>>), List(<<"C">>), List(<<"Python", "C">>), List(<<"Java">>)}

NoOp == [op |-> "None", language |-> None, exc |-> "None", ret |-> <<>>]

-----------------------------------------------------------------------------
(* makeGenerator: calls and the generators they return *)

Elem(v) == [val |-> v]

ProduceNames == {"iterate", "iterateImports", "iterateComponents"}

AdvanceNames == {"next", "nextImport", "nextComponent"}

\* Every way for the names S to be callable members, other members or absent.
Members(S) ==
    {k \in [meth : SUBSET S, attr : SUBSET S] : k.meth \cap k.attr = {}}

\* The values the advance method returns: Elem("0") stands for the number 0
\* and Elem("") for the empty string, the values Python takes for false.
ItemSeqs == {<<Elem("x"), None, Elem("y")>>, <<Elem("0"), Elem("")>>}

\* The targets: every membership of the produce names over a sound
\* iterator, and every membership of the advance names under a sound target.
Targets ==
    {Target("Model", k.meth, k.attr, "Iter", AdvanceNames, {}, its) :
        k \in Members(ProduceNames), its \in ItemSeqs}
    \cup
    {Target("Model", ProduceNames, {}, "Iter", k.meth, k.attr, its) :
        k \in Members(AdvanceNames), its \in ItemSeqs}

NotGiven == "<default>"

\* Line 188: a parameter takes its default when the caller gives no value.
param(arg, default) == IF arg = NotGiven THEN default ELSE arg

NoCall ==
    [key |-> NoKey, iterator |-> NotGiven, next |-> NotGiven, iname |-> "",
     nname |-> "", error |-> NoError, invoked |-> FALSE, made |-> FALSE]

\* One next() on the generator g over the iterator object it: a finished
\* generator raises StopIteration at once; else func() is called (line 204),
\* None finishes the generator and any other value is yielded.
genNext_restartable(g, it, items) ==
    LET v == advance(items, it.pos + 1)
    IN  IF v = None
        THEN [gen |-> [g EXCEPT !.state = "finished", !.pulls = @ + 1],
              iter |-> [it EXCEPT !.pos = @ + 1]]
        ELSE [gen |-> [g EXCEPT !.out = Append(@, v), !.pulls = @ + 1,
                                !.state = "suspended"],
              iter |-> [it EXCEPT !.pos = @ + 1]]

genNext_falsyEnds(g, it, items) ==
    IF g.state = "finished"
    THEN [gen |-> [g EXCEPT !.pulls = @ + 1], iter |-> it]
    ELSE LET v == advance(items, it.pos + 1)
         IN  IF v \in {None, Elem("0"), Elem("")}
             THEN [gen |-> [g EXCEPT !.state = "finished", !.pulls = @ + 1],
                   iter |-> [it EXCEPT !.pos = @ + 1]]
             ELSE [gen |-> [g EXCEPT !.out = Append(@, v), !.pulls = @ + 1],
                   iter |-> [it EXCEPT !.pos = @ + 1]]

genNext(g, it, items) ==
    IF g.state = "finished"
    THEN [gen |-> [g EXCEPT !.pulls = @ + 1], iter |-> it]
    ELSE LET v == advance(items, it.pos + 1)
         IN  IF v = None
             THEN [gen |-> [g EXCEPT !.state = "finished", !.pulls = @ + 1],
                   iter |-> [it EXCEPT !.pos = @ + 1]]
             ELSE [gen |-> [g EXCEPT !.out = Append(@, v), !.pulls = @ + 1],
                   iter |-> [it EXCEPT !.pos = @ + 1]]

GenInit ==
    /\ target \in Targets
    /\ iters = <<>>
    /\ gens = <<>>
    /\ lastcall = NoCall
    /\ model_url = H(R, "leaf")
    /\ down = {}
    /\ pc = "idle"
    /\ model = "None"
    /\ importq = <<>>
    /\ base = EmptyStr
    /\ imports = <<>>
    /\ imported = <<>>
    /\ trace = <<>>
    /\ urlopened = {}
    /\ err = [exc |-> "None", at |-> "None"]
    /\ calls = <<>>
    /\ approved_protocol = approved_protocol_default
    /\ celeds_exporter = _initiateCeLEDS(CeledsFiles)
    /\ cmodel = ModelOf(<<>>)
    /\ lastop = NoOp

\* makeGenerator(target, key, iterator, next), lines 219-225.
Call(key, itArg, nxArg) ==
    /\ Len(iters) < MaxGens
    /\ LET g == makeGenerator(target, key, param(itArg, "iterate"),
                              param(nxArg, "next"))
       IN  /\ iters' = IF g.invoked
                       THEN Append(iters, [via |-> g.iname, pos |-> 0])
                       ELSE iters
           /\ gens' = IF g.error.exc = "None"
                      THEN Append(gens, [iter |-> Len(iters) + 1,
                                         nfunc |-> g.nname,
                                         state |-> "suspended",
                                         out |-> <<>>, pulls |-> 0])
                      ELSE gens
           /\ lastcall' = [key |-> key, iterator |-> itArg, next |-> nxArg,
                           iname |-> g.iname, nname |-> g.nname,
                           error |-> g.error, invoked |-> g.invoked,
                           made |-> TRUE]
    /\ UNCHANGED <<target, lvars, uvars>>

\* An element is requested from the j-th generator.
Pull(j) ==
    /\ j \in 1..Len(gens)
    /\ gens[j].pulls < MaxPulls
    /\ LET n == genNext(gens[j], iters[gens[j].iter], target.items)
       IN  /\ gens' = [gens EXCEPT ![j] = n.gen]
           /\ iters' = [iters EXCEPT ![gens[j].iter] = n.iter]
    /\ UNCHANGED <<target, lastcall, lvars, uvars>>

GenNext ==
    \/ \E key \in {NoKey, "Import"}, itArg \in {NotGiven, "iterateComponents"},
          nxArg \in {NotGiven, "nextComponent"} : Call(key, itArg, nxArg)
    \/ \E j \in 1..MaxGens : Pull(j)

GenSpec == GenInit /\ [][GenNext]_vars

-----------------------------------------------------------------------------
(* extractMaths and exportCeleds: calls *)

UtilInit ==
    /\ cmodel \in Models
    /\ celeds_exporter \in {_initiateCeLEDS(files) : files \in SUBSET CeledsFiles}
    /\ approved_protocol = approved_protocol_default
    /\ lastop = NoOp
    /\ target = Target("Model", {}, {}, "Iter", {}, {}, <<>>)
    /\ iters = <<>>
    /\ gens = <<>>
    /\ lastcall = NoCall
    /\ model_url = H(R, "leaf")
    /\ down = {}
    /\ pc = "idle"
    /\ model = "None"
    /\ importq = <<>>
    /\ base = EmptyStr
    /\ imports = <<>>
    /\ imported = <<>>
    /\ trace = <<>>
    /\ urlopened = {}
    /\ err = [exc |-> "None", at |-> "None"]
    /\ calls = <<>>

\* extractMaths(cmodel), lines 150-162.
ExtractMaths ==
    /\ \E r \in {extractMaths(cmodel)} :
           lastop' = [op |-> "extractMaths", language |-> None,
                      exc |-> r.exc, ret |-> r.results]
    /\ UNCHANGED <<lvars, gvars, approved_protocol, celeds_exporter, cmodel>>

\* exportCeleds(cmodel, language), lines 164-185.
ExportCeleds(language) ==
    /\ \E r \in {exportCeleds(celeds_exporter, cmodel, language)} :
           lastop' = [op |-> "exportCeleds", language |-> language,
                      exc |-> r.exc, ret |-> r.result]
    /\ UNCHANGED <<lvars, gvars, approved_protocol, celeds_exporter, cmodel>>

UtilNext ==
    \/ ExtractMaths
    \/ \E language \in LanguageArgs : ExportCeleds(language)

UtilSpec == UtilInit /\ [][UtilNext]_vars

-----------------------------------------------------------------------------
(* loadModel *)

\* The most imports a document declares.
MaxImports ==
    CHOOSE n \in 0..4 :
        /\ \A d \in DocIds : Len(Doc(d).hrefs) <= n
        /\ \E d \in DocIds : Len(Doc(d).hrefs) = n

\* An Import object is known by its place in the tree: the k-th Import of
\* the root is <<k>>, the j-th Import of its instantiated model <<k, j>>.
Deep == <<0>>

RootId == <<>>

Ids == UNION {[1..n -> 1..MaxImports] : n \in 1..MaxDepth}

childId(p, k) == IF p = Deep \/ Len(p) >= MaxDepth THEN Deep ELSE Append(p, k)

\* model.getimports() of the model instantiated from document d at place p.
getimports(d, p) ==
    Target("CellMLImportSet", {"iterateImports"}, {},
           "ImportIterator", Doc(d).imeth, {},
           [k \in 1..Len(Doc(d).hrefs) |->
               [href |-> Doc(d).hrefs[k], id |-> childId(p, k)]])

\* getImportGenerator(model), lines 104-107.
getImportGenerator(d, p) == makeGenerator(getimports(d, p), "Import", "iterate", "next")

baseUrl_noXmlBase(b, d) == b

\* Line 112: model.getxmlBase().getasText() or base
baseUrl(b, d) == IF Doc(d).xmlBase # EmptyStr THEN Doc(d).xmlBase ELSE b

appendQueue_always(q, b, d, p) ==
    LET gen == getImportGenerator(d, p)
        subimport == drainFrom(getimports(d, p).items, 1)
    IN  IF gen.error.exc # "None" THEN [exc |-> gen.error.exc, q |-> q]
        ELSE [exc |-> "None",
              q |-> Append(q, [base |-> baseUrl(b, d), imports |-> subimport])]

appendQueue_errorSkipped(q, b, d, p) ==
    LET gen == getImportGenerator(d, p)
        subimport == drainFrom(getimports(d, p).items, 1)
    IN  IF gen.error.exc = "None" /\ subimport # <<>>
        THEN [exc |-> "None",
              q |-> Append(q, [base |-> baseUrl(b, d), imports |-> subimport])]
        ELSE [exc |-> "None", q |-> q]

\* appendQueue(base, model) on the queue q, for the model instantiated from
\* document d at place p: the TypeError that leaves it, and the queue after.
appendQueue(q, b, d, p) ==
    LET gen == getImportGenerator(d, p)
        subimport == drainFrom(getimports(d, p).items, 1)
    IN  IF gen.error.exc # "None" THEN [exc |-> gen.error.exc, q |-> q]
        ELSE IF subimport # <<>>
        THEN [exc |-> "None",
              q |-> Append(q, [base |-> baseUrl(b, d), imports |-> subimport])]
        ELSE [exc |-> "None", q |-> q]

caught_urlErrorOnly(exc) == exc = "URLError"

\* Lines 131-137: the exceptions of loadURL the loop catches.
caught(exc) == exc \in {"URLError", "ValueError"}

\* Line 123: while len(importq)
loopTest_offByOne(q) == Len(q) > 1

loopTest(q) == Len(q) # 0

NoErr == [exc |-> "None", at |-> "None"]

newQueue_reused(q) == q

\* Line 117: importq = []
newQueue(q) == <<>>

Init ==
    /\ model_url \in Roots
    /\ down \in SUBSET Flaky
    /\ pc = "start"
    /\ model = "None"
    /\ importq = <<>>
    /\ base = EmptyStr
    /\ imports = <<>>
    /\ imported = [p \in Ids |-> "None"]
    /\ trace = <<>>
    /\ urlopened = {}
    /\ err = NoErr
    /\ target = Target("Model", {}, {}, "Iter", {}, {}, <<>>)
    /\ iters = <<>>
    /\ gens = <<>>
    /\ lastcall = NoCall
    /\ calls = <<>>
    /\ approved_protocol = approved_protocol_default
    /\ celeds_exporter = _initiateCeLEDS(CeledsFiles)
    /\ cmodel = ModelOf(<<>>)
    /\ lastop = NoOp

\* The root fetched under the try of the loop: a failure is passed over.
LoadRoot_failureCaught ==
    /\ pc = "start"
    /\ \E r \in {loadURL(model_url)} :
       LET d == createFromText(r.body)
           a == appendQueue(newQueue(importq), model_url, d, RootId)
       IN  /\ urlopened' = IF r.opened THEN urlopened \cup {model_url} ELSE urlopened
           /\ IF r.exc # "None"
              THEN /\ pc' = (IF caught(r.exc) THEN "while" ELSE "error")
                   /\ err' = (IF caught(r.exc) THEN err
                              ELSE [exc |-> r.exc, at |-> "root"])
                   /\ importq' = newQueue(importq)
                   /\ UNCHANGED <<model, base>>
              ELSE \E q \in {a} :
                   /\ base' = r.body
                   /\ model' = d
                   /\ importq' = q.q
                   /\ IF q.exc # "None"
                      THEN pc' = "error" /\ err' = [exc |-> q.exc, at |-> "root"]
                      ELSE pc' = "while" /\ UNCHANGED err
    /\ UNCHANGED <<model_url, down, imports, imported, trace, calls, gvars, uvars>>

\* Lines 117-121: fetch and parse the root, queue its imports.
LoadRoot ==
    /\ pc = "start"
    /\ \E r \in {loadURL(model_url)} :
       LET d == createFromText(r.body)
           a == appendQueue(newQueue(importq), model_url, d, RootId)
       IN  /\ urlopened' = IF r.opened THEN urlopened \cup {model_url} ELSE urlopened
           /\ IF r.exc # "None"
              THEN /\ pc' = "error"
                   /\ err' = [exc |-> r.exc, at |-> "root"]
                   /\ importq' = newQueue(importq)
                   /\ UNCHANGED <<model, base>>
              ELSE \E q \in {a} :
                   /\ base' = r.body
                   /\ model' = d
                   /\ importq' = q.q
                   /\ IF q.exc # "None"
                      THEN pc' = "error" /\ err' = [exc |-> q.exc, at |-> "root"]
                      ELSE pc' = "while" /\ UNCHANGED err
    /\ UNCHANGED <<model_url, down, imports, imported, trace, calls, gvars, uvars>>

PopFrame_peek ==
    /\ pc = "while"
    /\ loopTest(importq)
    /\ base' = Head(importq).base
    /\ imports' = Head(importq).imports
    /\ importq' = importq
    /\ pc' = "for"
    /\ UNCHANGED <<model_url, down, model, imported, trace, urlopened, err,
                   calls, gvars, uvars>>

PopFrame_lifo ==
    /\ pc = "while"
    /\ loopTest(importq)
    /\ base' = importq[Len(importq)].base
    /\ imports' = importq[Len(importq)].imports
    /\ importq' = SubSeq(importq, 1, Len(importq) - 1)
    /\ pc' = "for"
    /\ UNCHANGED <<model_url, down, model, imported, trace, urlopened, err,
                   calls, gvars, uvars>>

\* Lines 123-125: the queue is not empty, pop its head.
PopFrame ==
    /\ pc = "while"
    /\ loopTest(importq)
    /\ base' = Head(importq).base
    /\ imports' = Head(importq).imports
    /\ importq' = Tail(importq)
    /\ pc' = "for"
    /\ UNCHANGED <<model_url, down, model, imported, trace, urlopened, err,
                   calls, gvars, uvars>>

\* The record of one fetch attempted for an Import the tree keeps track of.
logged(i, nexturl, exc) ==
    IF i.id = Deep THEN trace
    ELSE Append(trace, [id |-> i.id, base |-> base, url |-> nexturl, exc |-> exc])

\* Lines 126-139: one turn of the for loop, for the next Import of the frame.
ProcessImport ==
    /\ pc = "for"
    /\ imports # <<>>
    /\ \E i \in {Head(imports)} :
       \E nexturl \in {urljoin(base, i.href)} :
       \E r \in {loadURL(nexturl)} :
       LET d == createFromText(r.body)
           a == appendQueue(importq, nexturl, d, i.id)
           more == IF Tail(imports) # <<>> THEN "for" ELSE "while"
       IN  /\ urlopened' = IF r.opened THEN urlopened \cup {nexturl} ELSE urlopened
           /\ trace' = logged(i, nexturl, r.exc)
           /\ imports' = Tail(imports)
           /\ IF r.exc # "None"
              THEN /\ UNCHANGED <<base, imported, importq>>
                   /\ IF caught(r.exc)
                      THEN pc' = more /\ UNCHANGED err
                      ELSE pc' = "error" /\ err' = [exc |-> r.exc, at |-> "import"]
              ELSE \E q \in {a} :
                   /\ base' = r.body
                   /\ imported' = IF i.id = Deep THEN imported
                                  ELSE [imported EXCEPT ![i.id] = d]
                   /\ importq' = q.q
                   /\ IF q.exc # "None"
                      THEN pc' = "error" /\ err' = [exc |-> q.exc, at |-> "import"]
                      ELSE pc' = more /\ UNCHANGED err
    /\ UNCHANGED <<model_url, down, model, calls, gvars, uvars>>

\* Lines 123 and 141: the queue is empty, return the root.
Return ==
    /\ pc = "while"
    /\ ~loopTest(importq)
    /\ pc' = "done"
    /\ UNCHANGED <<model_url, down, model, importq, base, imports, imported,
                   trace, urlopened, err, calls, gvars,
                   uvars>>

Next == LoadRoot \/ PopFrame \/ ProcessImport \/ Return

Spec == Init /\ [][Next]_vars

\* The call is one sequential thread: a step that can be taken is taken.
FairSpec == Spec /\ WF_vars(Next)

\* The locations a later loadModel call on the same utility is given.
AgainRoots == {H(R, "mixed"), H(R, "leaf"), H(R, "odd")}

\* The call has ended and loadModel is called again, on the same utility and
\* under the same network: the locals of the call that ended are out of
\* reach (what they held is left in place here until the new call assigns
\* them), the model tree of the new call is made of new objects.
LoadAgain ==
    /\ pc \in {"done", "error"}
    /\ Len(calls) + 1 < MaxCalls
    /\ model_url' \in AgainRoots
    /\ calls' = Append(calls, [url |-> model_url, pc |-> pc, exc |-> err.exc,
                               queued |-> Len(importq)])
    /\ pc' = "start"
    /\ model' = "None"
    /\ imported' = [p \in Ids |-> "None"]
    /\ trace' = <<>>
    /\ urlopened' = {}
    /\ err' = NoErr
    /\ UNCHANGED <<down, importq, base, imports, gvars, uvars>>

AgainNext == Next \/ LoadAgain

AgainSpec == Init /\ [][AgainNext]_vars

\* The slots of a tree after Import p was instantiated from document d.
attached(m, p, d) == IF p = Deep THEN m ELSE [m EXCEPT ![p] = d]

\* Lines 123-139 as a function: the loop from the for loop over the Imports
\* is of the popped frame, with the local base b, the queue q and the slots
\* m, to the end of the call.
RECURSIVE drain(_, _, _, _)
drain(q, b, is, m) ==
    IF is = <<>>
    THEN IF loopTest(q)
         THEN drain(Tail(q), Head(q).base, Head(q).imports, m)
         ELSE [pc |-> "done", imported |-> m, err |-> NoErr]
    ELSE LET i == Head(is)
             nexturl == urljoin(b, i.href)
             r == loadURL(nexturl)
             d == createFromText(r.body)
             a == appendQueue(q, nexturl, d, i.id)
         IN  IF r.exc # "None"
             THEN IF caught(r.exc) THEN drain(q, b, Tail(is), m)
                  ELSE [pc |-> "error", imported |-> m,
                        err |-> [exc |-> r.exc, at |-> "import"]]
             ELSE IF a.exc # "None"
             THEN [pc |-> "error", imported |-> attached(m, i.id, d),
                   err |-> [exc |-> a.exc, at |-> "import"]]
             ELSE drain(a.q, r.body, Tail(is), attached(m, i.id, d))

\* loadModel(model_url) on a utility that made no call before: how the call
\* ends, the root returned and the slots of its tree.
loadModel(url) ==
    LET r == loadURL(url)
        d == createFromText(r.body)
        a == appendQueue(newQueue(<<>>), url, d, RootId)
        none == [p \in Ids |-> "None"]
    IN  IF r.exc # "None"
        THEN [pc |-> "error", model |-> "None", imported |-> none,
              err |-> [exc |-> r.exc, at |-> "root"]]
        ELSE IF a.exc # "None"
        THEN [pc |-> "error", model |-> d, imported |-> none,
              err |-> [exc |-> a.exc, at |-> "root"]]
        ELSE LET e == drain(a.q, r.body, <<>>, none)
             IN  [pc |-> e.pc, model |-> d, imported |-> e.imported,
                  err |-> e.err]

-----------------------------------------------------------------------------
(* Reading the tree loadModel builds *)

\* The document the model at place p was instantiated from ("None": none).
docAt(p) == IF p = RootId THEN model ELSE imported[p]

\* The location the document at place p was fetched from.
fetchedFrom(p) ==
    IF p = RootId THEN model_url
    ELSE trace[CHOOSE k \in 1..Len(trace) : trace[k].id = p].url

\* The effective base URL of the document at place p, in the words of the
\* specification: its declared base if present, else where it came from.
effectiveBase(p) ==
    IF Doc(docAt(p)).xmlBase # EmptyStr THEN Doc(docAt(p)).xmlBase
    ELSE fetchedFrom(p)

\* The places whose Imports the tree keeps track of.
Owners == {p \in Ids \cup {RootId} : Len(p) < MaxDepth /\ docAt(p) # "None"}

Ended == pc \in {"done", "error"}

-----------------------------------------------------------------------------
(* C1 *)

\* C1: a location whose scheme is not in approved_protocol is never handed to
\* urlopen, and loadURL fails on it with the ValueError of the gate (seen
\* here on the root location, which loadModel hands to loadURL first).
C1_DisallowedNeverFetched ==
    /\ \A u \in urlopened : urlscheme(u) \in approved_protocol
    /\ (pc # "start" /\ urlscheme(model_url) \notin approved_protocol)
           => (pc = "error" /\ err = [exc |-> "ValueError", at |-> "root"])

(* C2 *)

\* C2: an Import whose resolved target has a scheme outside
\* approved_protocol keeps an empty instantiated-model slot, in every state
\* of the call.
C2_DisallowedSlotEmpty ==
    \A k \in 1..Len(trace) :
        urlscheme(trace[k].url) \notin approved_protocol
            => imported[trace[k].id] = "None"

(* C3 *)

C3_SkipStep ==
    (/\ pc = "for"
     /\ imports # <<>>
     /\ loadURL(urljoin(base, Head(imports).href)).exc \in {"URLError", "ValueError"})
        => /\ imported' = imported
           /\ importq' = importq
           /\ imports' = Tail(imports)
           /\ pc' = (IF imports' # <<>> THEN "for" ELSE "while")
           /\ err' = err

C3_AllAttempted ==
    /\ pc = "done" =>
           \A p \in Owners : \A k \in 1..Len(Doc(docAt(p)).hrefs) :
               \E j \in 1..Len(trace) : trace[j].id = Append(p, k)
    /\ err.exc \in {"URLError", "ValueError"} => err.at = "root"

\* C3: a nested import whose fetch raises URLError or ValueError is skipped
\* alone: the step leaves every slot and the queue as they were and goes on
\* with the next Import of the frame (or the next frame); when loadModel
\* returns every Import of every instantiated model has been attempted, and
\* no fetch exception of a nested import leaves loadModel.
C3_FailureIsolation == [][C3_SkipStep]_vars /\ []C3_AllAttempted

C3_Witness ==
    /\ pc = "done"
    /\ \E j, k \in 1..Len(trace) :
           /\ j < k
           /\ trace[j].exc = "URLError"
           /\ trace[k].exc = "None"
           /\ imported[trace[j].id] = "None"
           /\ imported[trace[k].id] # "None"

(* C4 *)

\* C4: when the fetch of the root raises, loadModel ends with that
\* exception: no model is parsed, nothing is queued and no import is fetched.
C4_RootFailurePropagates ==
    (pc # "start" /\ loadURL(model_url).exc # "None")
        => /\ pc = "error"
           /\ err = [exc |-> loadURL(model_url).exc, at |-> "root"]
           /\ model = "None"
           /\ importq = <<>>
           /\ trace = <<>>
           /\ urlopened \subseteq {model_url}
           /\ \A p \in Ids : imported[p] = "None"

C4_Witness ==
    /\ pc = "error"
    /\ err = [exc |-> "URLError", at |-> "root"]
    /\ model_url \in urlopened

(* C5 *)

\* C5: when loadModel returns the queue is empty and each Import's slot is
\* populated exactly when the document at its target (its href resolved
\* against the owning document's effective base URL) can be fetched.
C5_SlotsIffFetched ==
    pc = "done" =>
        /\ importq = <<>>
        /\ \A p \in Owners : \A k \in 1..Len(Doc(docAt(p)).hrefs) :
               (imported[Append(p, k)] # "None")
                   <=> (urlopen(urljoin(effectiveBase(p),
                                        Doc(docAt(p)).hrefs[k])).exc = "None")

(* C6 *)

\* The locations the document served at u links to: its hrefs resolved
\* against its declared base, or against u when it declares none.
linked(u) ==
    IF urlopen(u).exc # "None" THEN {}
    ELSE LET t == Doc(createFromText(urlopen(u).body))
             b == IF t.xmlBase # EmptyStr THEN t.xmlBase ELSE u
         IN  {urljoin(b, t.hrefs[k]) : k \in 1..Len(t.hrefs)}

RECURSIVE reach(_)
reach(S) ==
    LET N == S \cup UNION {linked(u) : u \in S}
    IN  IF N = S THEN S ELSE reach(N)

\* No document that can be reached from the root links back to itself.
ImportsAcyclic == \A u \in reach({model_url}) : u \notin reach(linked(u))

\* C6 as stated: whatever the import links, the call ends.
C6_AlwaysTerminates == <>Ended

\* C6, amended: when the import links reachable from the root hold no cycle
\* the call ends, and when it returns the queue is empty and the root
\* ModelNode is the result.
C6_TerminatesIfAcyclic ==
    /\ ImportsAcyclic => <>Ended
    /\ [](pc = "done" => importq = <<>> /\ model # "None")

C6_Witness ==
    /\ ImportsAcyclic
    /\ pc = "done"
    /\ \E p \in Ids : Len(p) = 2 /\ imported[p] # "None"

(* C7 *)

\* The place of the model whose Imports the frame f holds.
frameOwner(f) == SubSeq(f.imports[1].id, 1, Len(f.imports[1].id) - 1)

C7_FrameBase ==
    \A n \in 1..Len(importq) :
        LET f == importq[n]
        IN  f.imports[1].id # Deep =>
                f.base = (IF Doc(docAt(frameOwner(f))).xmlBase # EmptyStr
                          THEN Doc(docAt(frameOwner(f))).xmlBase
                          ELSE fetchedFrom(frameOwner(f)))

C7_QueuedFramesKept ==
    \/ importq' = importq
    \/ importq # <<>> /\ importq' = Tail(importq)
    \/ /\ Len(importq') = Len(importq) + 1
       /\ SubSeq(importq', 1, Len(importq)) = importq

\* C7: every queued frame carries the effective base URL of the document
\* whose imports it holds (the declared xml:base when non-empty, else the
\* location the document was fetched from), and a step changes the queue
\* only by popping its head or appending one frame: a queued frame's base
\* never changes.
C7_EffectiveBase == []C7_FrameBase /\ [][C7_QueuedFramesKept]_vars

\* A frame is queued for a document that declares a base other than the
\* location it was fetched from, after one for a document that declares none.
C7_Witness ==
    /\ importq # <<>>
    /\ \E n \in 1..Len(importq) :
           /\ importq[n].imports[1].id # Deep
           /\ importq[n].base = Doc(docAt(frameOwner(importq[n]))).xmlBase
           /\ importq[n].base # fetchedFrom(frameOwner(importq[n]))
           /\ frameOwner(importq[n]) # RootId

-----------------------------------------------------------------------------
(* C8 *)

\* The produce-iterator method the latest call invoked, if it invoked one.
invokedName == iters[Len(iters)].via

\* C8 as stated: with a key and no explicit names the names are derived from
\* the key, and explicit names, when given, are the ones used.
C8_ExplicitNamesFirst ==
    lastcall.made =>
        /\ (lastcall.key # NoKey /\ lastcall.iterator = NotGiven)
               => lastcall.iname = "iterate" \o lastcall.key \o "s"
        /\ (lastcall.key # NoKey /\ lastcall.next = NotGiven)
               => lastcall.nname = "next" \o lastcall.key
        /\ lastcall.iterator # NotGiven => lastcall.iname = lastcall.iterator
        /\ lastcall.next # NotGiven => lastcall.nname = lastcall.next

\* C8, amended: with a key the names are iterate<key>s and next<key>, also
\* when explicit names are given with it; explicit names (or the defaults
\* iterate and next) are used only when no key is given.  The method invoked
\* on the target is the one so named.
C8_KeyNamesFirst ==
    lastcall.made =>
        /\ lastcall.key # NoKey =>
               /\ lastcall.iname = "iterate" \o lastcall.key \o "s"
               /\ lastcall.nname = "next" \o lastcall.key
        /\ lastcall.key = NoKey =>
               /\ lastcall.iname =
                      (IF lastcall.iterator = NotGiven THEN "iterate"
                       ELSE lastcall.iterator)
               /\ lastcall.nname =
                      (IF lastcall.next = NotGiven THEN "next" ELSE lastcall.next)
        /\ lastcall.invoked =>
               invokedName = (IF lastcall.key # NoKey
                              THEN "iterate" \o lastcall.key \o "s"
                              ELSE IF lastcall.iterator = NotGiven THEN "iterate"
                              ELSE lastcall.iterator)

\* A call that gives the key Import and the explicit names
\* iterateComponents and nextComponent, on a target that has them all,
\* invoked iterateImports.
C8_Witness ==
    /\ lastcall.made
    /\ lastcall.key = "Import"
    /\ lastcall.iterator = "iterateComponents"
    /\ lastcall.next = "nextComponent"
    /\ {"iterateComponents", "iterateImports"} \subseteq target.meth
    /\ {"nextComponent", "nextImport"} \subseteq target.imeth
    /\ gens[Len(gens)].nfunc = "nextImport"
    /\ lastcall.invoked
    /\ invokedName = "iterateImports"
    /\ lastcall.error = NoError

(* C9 *)

C9_Errors ==
    lastcall.made =>
        /\ lastcall.iname \notin target.meth =>
               /\ lastcall.error.exc = "TypeError"
               /\ lastcall.error.name = lastcall.iname
               /\ lastcall.error.cls = target.cls
               /\ ~lastcall.invoked
        /\ (lastcall.iname \in target.meth /\ lastcall.nname \notin target.imeth) =>
               /\ lastcall.error.exc = "TypeError"
               /\ lastcall.error.name = lastcall.nname
        /\ (lastcall.iname \in target.meth /\ lastcall.nname \in target.imeth) =>
               lastcall.error = NoError

C9_NothingProduced ==
    /\ Len(iters') > Len(iters) => lastcall'.iname \in target.meth
    /\ Len(gens') > Len(gens) =>
           /\ lastcall'.iname \in target.meth
           /\ lastcall'.nname \in target.imeth
    /\ \A j \in 1..Len(gens') : gens'[j].out # <<>> => j <= Len(gens)

\* C9: a target without a callable produce-iterator member makes the call
\* fail with a TypeError naming the member and the target's type, and the
\* method is not invoked; an iterator object without a callable advance
\* member makes it fail with a TypeError naming that member; a failed call
\* returns no generator, so no element is produced.
C9_CapabilityCheck == []C9_Errors /\ [][C9_NothingProduced]_vars

\* The target has iterateImports, its iterator has nextImport only as a
\* member that is not callable, and the call failed naming nextImport.
C9_Witness ==
    /\ lastcall.made
    /\ lastcall.iname = "iterateImports"
    /\ lastcall.invoked
    /\ "nextImport" \in target.iattr
    /\ lastcall.error.exc = "TypeError"
    /\ lastcall.error.name = "nextImport"
    /\ gens = <<>>

(* C10 *)

C10_FinishedStays ==
    \A j \in 1..Len(gens) :
        gens[j].state = "finished" =>
            /\ gens'[j].state = "finished"
            /\ gens'[j].out = gens[j].out
            /\ iters'[gens[j].iter] = iters[gens[j].iter]

C10_FreshIterator ==
    Len(gens') > Len(gens) =>
        /\ Len(iters') = Len(iters) + 1
        /\ gens'[Len(gens')].iter = Len(iters')
        /\ iters'[Len(iters')].pos = 0
        /\ gens'[Len(gens')].out = <<>>

C10_Independent ==
    /\ \A j, k \in 1..Len(gens) : j # k => gens[j].iter # gens[k].iter
    /\ \A j \in 1..Len(gens) :
           /\ gens[j].out = SubSeq(target.items, 1, Len(gens[j].out))
           /\ iters[gens[j].iter].pos =
                  Len(gens[j].out) + (IF gens[j].state = "finished" THEN 1 ELSE 0)

\* C10: a generator whose advance has returned None stays finished: later
\* requests yield nothing and call advance no more.  Each makeGenerator call
\* that returns a generator obtained a new iterator object, at its start, and
\* what a generator has yielded depends on its own requests alone.
C10_SinglePass ==
    /\ [][C10_FinishedStays]_vars
    /\ [][C10_FreshIterator]_vars
    /\ []C10_Independent

\* A generator finished by a None that other values follow was asked again,
\* while a second generator over the same target is at another place.
C10_Witness ==
    \E j, k \in 1..Len(gens) :
        /\ gens[j].state = "finished"
        /\ gens[j].pulls > iters[gens[j].iter].pos
        /\ Len(target.items) > iters[gens[j].iter].pos
        /\ gens[k].out # gens[j].out
        /\ gens[k].state = "suspended"

-----------------------------------------------------------------------------
(* C11 *)

\* The document at url can be fetched and enumerating the imports of the
\* model made of it raises.
enumerationRaises(url) ==
    /\ loadURL(url).exc = "None"
    /\ getImportGenerator(createFromText(loadURL(url).body), RootId).error.exc
           = "TypeError"

C11_Propagates ==
    /\ (pc = "start" /\ pc' # "start" /\ enumerationRaises(model_url))
           => /\ pc' = "error"
              /\ err' = [exc |-> "TypeError", at |-> "root"]
    /\ (pc = "for" /\ imports # <<>>
            /\ enumerationRaises(urljoin(base, Head(imports).href)))
           => /\ pc' = "error"
              /\ err' = [exc |-> "TypeError", at |-> "import"]
              /\ importq' = importq
    /\ pc = "error" => pc' = "error" /\ trace' = trace /\ urlopened' = urlopened

C11_NotSkipped ==
    /\ \A k \in 1..Len(trace) :
           (/\ trace[k].exc = "None"
            /\ getImportGenerator(imported[trace[k].id], RootId).error.exc
                   = "TypeError")
               => /\ k = Len(trace)
                  /\ pc = "error"
                  /\ err = [exc |-> "TypeError", at |-> "import"]
    /\ (model # "None"
            /\ getImportGenerator(model, RootId).error.exc = "TypeError")
           => /\ pc = "error"
              /\ err = [exc |-> "TypeError", at |-> "root"]
              /\ trace = <<>>

\* C11: when enumerating the imports of the root or of a model just
\* instantiated raises the TypeError of makeGenerator, the step ends
\* loadModel with that TypeError; it is never passed over like a failed
\* fetch, and once loadModel has ended with an error no Import is fetched.
C11_CapabilityErrorPropagates ==
    [][C11_Propagates]_vars /\ []C11_NotSkipped

\* The second Import of the root was instantiated from a document whose
\* import iterator lacks nextImport: loadModel ended with the TypeError while
\* the frame of the first Import was still queued.
C11_Witness ==
    /\ pc = "error"
    /\ err = [exc |-> "TypeError", at |-> "import"]
    /\ Len(trace) = 2
    /\ imported[trace[2].id] = "odd"
    /\ importq # <<>>

(* C12 *)

\* The frame f holds the Imports of a model of the tree of the call under
\* way, all of them.
ownFrame(f) ==
    /\ docAt(frameOwner(f)) # "None"
    /\ f.imports = getimports(docAt(frameOwner(f)), frameOwner(f)).items

C12_OwnFrames ==
    pc \in {"while", "for", "done", "error"} =>
        \A n \in 1..Len(importq) :
            importq[n].imports[1].id # Deep => ownFrame(importq[n])

C12_SameAsFresh ==
    pc \in {"done", "error"} =>
        /\ pc = loadModel(model_url).pc
        /\ err = loadModel(model_url).err
        /\ model = loadModel(model_url).model
        /\ imported = loadModel(model_url).imported

C12_FreshQueue ==
    (pc = "start" /\ pc' # "start") =>
        /\ Len(importq') <= 1
        /\ importq' # <<>> =>
               /\ pc' = "while"
               /\ importq'[1] = [base |-> baseUrl(model_url, model'),
                                 imports |-> getimports(model', RootId).items]

C12_AttributesKept ==
    /\ approved_protocol' = approved_protocol
    /\ celeds_exporter' = celeds_exporter

\* C12: a loadModel call made on a utility after an earlier call ended, with
\* a skipped import or with an error and whatever that call left queued,
\* starts from an empty queue: after its first step the queue holds at most
\* the frame of its own root, every frame queued later holds the Imports of
\* a model of its own tree, and it ends as a call on a new utility ends on
\* the same location (same outcome, root and slots).  No step of loadModel
\* changes approved_protocol or celeds_exporter.
C12_CallsIndependent ==
    /\ []C12_OwnFrames
    /\ []C12_SameAsFresh
    /\ [][C12_FreshQueue /\ C12_AttributesKept]_vars

\* The first call ended with an error and left a frame queued; the second
\* call, on another location, returned a tree two levels deep.
C12_Witness ==
    /\ Len(calls) = 1
    /\ calls[1].pc = "error"
    /\ calls[1].queued > 0
    /\ calls[1].url # model_url
    /\ pc = "done"
    /\ \E p \in Ids : Len(p) = 2 /\ imported[p] # "None"

-----------------------------------------------------------------------------
(* C13 *)

\* C13: extractMaths returns one pair for each component of the model, in
\* the order of the components: the first member is the cmeta:id of the
\* component when it is not empty and its name otherwise, the second the
\* serialised math nodes of the component in their order (an empty list
\* for a component without math).
C13_OnePairPerComponent ==
    lastop.op = "extractMaths" =>
        /\ lastop.exc = "None"
        /\ Len(lastop.ret) = Len(cmodel.components)
        /\ \A k \in 1..Len(lastop.ret) :
               /\ lastop.ret[k][1] =
                      (IF cmodel.components[k].cmetaId # ""
                       THEN cmodel.components[k].cmetaId
                       ELSE cmodel.components[k].name)
               /\ Len(lastop.ret[k][2]) = Len(cmodel.components[k].math)
               /\ \A j \in 1..Len(cmodel.components[k].math) :
                      lastop.ret[k][2][j] =
                          serialiseNode(cmodel.components[k].math[j])

\* A model of two components: the first has no cmeta:id and no math, the
\* second has both.
C13_Witness ==
    /\ lastop.op = "extractMaths"
    /\ Len(cmodel.components) = 2
    /\ cmodel.components[1].cmetaId = ""
    /\ lastop.ret[1] = <<"membrane", <<>>>>
    /\ lastop.ret[2] = <<"c1", <<"<math>a</math>", "<math>b</math>">>>>

(* C14 *)

\* The keys of a list of languages.
listed(language) == {language.list[k] : k \in 1..Len(language.list)}

\* C14: exportCeleds ends without an exception; given a list of languages
\* that is not empty the result holds the code of the registered exporters
\* whose key is in the list and of no other, given None or an empty list it
\* holds the code of every registered exporter.
C14_ExportSelected ==
    lastop.op = "exportCeleds" =>
        /\ lastop.exc = "None"
        /\ DOMAIN lastop.ret =
               (IF truthy(lastop.language)
                THEN DOMAIN celeds_exporter \cap listed(lastop.language)
                ELSE DOMAIN celeds_exporter)
        /\ \A key \in DOMAIN lastop.ret :
               lastop.ret[key] = generateCode(celeds_exporter[key], cmodel)

-----------------------------------------------------------------------------
(* C15 *)

\* The place of the model that declares the Import p, and the href of p.
ownerOf(p) == SubSeq(p, 1, Len(p) - 1)

hrefOf(p) == Doc(docAt(ownerOf(p))).hrefs[p[Len(p)]]

\* The base of the frame the k-th fetch belongs to: the local base when the
\* first Import of that frame was taken, which is the base line 125 popped.
frameBaseOf(k) ==
    trace[CHOOSE j \in 1..Len(trace) :
              trace[j].id = Append(ownerOf(trace[k].id), 1)].base

\* C15: the location fetched for an Import is its href joined to the base
\* of the frame it was popped in, for every Import of the frame, whatever
\* came of the Imports before it.
C15_ResolvedAgainstFrameBase ==
    \A k \in 1..Len(trace) :
        trace[k].url = urljoin(frameBaseOf(k), hrefOf(trace[k].id))

(* C16 *)

\* Place p comes before place q in breadth-first order.
before(p, q) ==
    \/ Len(p) < Len(q)
    \/ /\ Len(p) = Len(q)
       /\ \E n \in 1..Len(p) :
              /\ p[n] < q[n]
              /\ \A m \in 1..(n - 1) : p[m] = q[m]

C16_QueueFifo ==
    \/ importq' = importq
    \/ /\ importq # <<>>
       /\ importq' = Tail(importq)
       /\ imports = <<>>
       /\ imports' = Head(importq).imports
       /\ base' = Head(importq).base
    \/ /\ Len(importq') = Len(importq) + 1
       /\ SubSeq(importq', 1, Len(importq)) = importq

C16_DeclaredOrder ==
    (pc = "for" /\ imports # <<>>) =>
        /\ imports' = Tail(imports)
        /\ Head(imports).id # Deep =>
               /\ Len(trace') = Len(trace) + 1
               /\ trace'[Len(trace')].id = Head(imports).id
        /\ importq' # importq =>
               importq'[Len(importq')].imports =
                   getimports(createFromText(base'), Head(imports).id).items

C16_BreadthFirst ==
    /\ \A j, k \in 1..Len(trace) :
           j < k => before(trace[j].id, trace[k].id)
    /\ \A m, n \in 1..Len(importq) :
           (m < n /\ importq[n].imports[1].id # Deep)
               => before(importq[m].imports[1].id, importq[n].imports[1].id)

\* C16: the queue changes only by a pop of its head, made when every Import
\* of the frame popped before has been taken, or by one frame appended at
\* its tail; the Imports of the popped frame are taken in their declared
\* order; so the fetches are attempted in breadth-first order: those of a
\* document before those of every document found after it, and those of
\* depth d before those of depth d + 1.
C16_FifoOrder ==
    /\ [][C16_QueueFifo /\ C16_DeclaredOrder]_vars
    /\ []C16_BreadthFirst

\* Both Imports of the root were instantiated and each queued a frame: the
\* Import of the first was fetched before the Import of the second.
C16_Witness ==
    /\ pc = "done"
    /\ \E j, k \in 1..Len(trace) :
           /\ j < k
           /\ trace[j].id = <<1, 1>>
           /\ trace[k].id = <<2, 1>>
           /\ trace[j].exc = "None"
           /\ trace[k].exc = "None"

(* C17 *)

\* The Imports the queue and the for loop hold, one after the other.
RECURSIVE flat(_)
flat(q) == IF q = <<>> THEN <<>> ELSE Head(q).imports \o flat(Tail(q))

pending == [k \in 1..Len(imports) |-> imports[k].id] \o
           [k \in 1..Len(flat(importq)) |-> flat(importq)[k].id]

C17_OnceEach ==
    /\ \A j, k \in 1..Len(trace) : j # k => trace[j].id # trace[k].id
    /\ \A j, k \in 1..Len(pending) :
           (j # k /\ pending[j] # Deep) => pending[j] # pending[k]
    /\ \A j \in 1..Len(trace), k \in 1..Len(pending) :
           trace[j].id # pending[k]
    /\ pc = "done" =>
           \A p \in Owners : \A k \in 1..Len(Doc(docAt(p)).hrefs) :
               Cardinality({j \in 1..Len(trace) : trace[j].id = Append(p, k)}) = 1
    /\ \A p \in Ids :
           imported[p] # "None" =>
               \E j \in 1..Len(trace) :
                   /\ trace[j].id = p
                   /\ trace[j].exc = "None"
                   /\ Body(imported[p]) = urlopen(trace[j].url).body

C17_SlotWrittenOnce ==
    \A p \in Ids :
        /\ imported[p] # "None" => imported'[p] = imported[p]
        /\ imported'[p] # imported[p] =>
               /\ pc = "for"
               /\ Head(imports).id = p
               /\ trace' = Append(trace, trace'[Len(trace')])
               /\ trace'[Len(trace')].id = p
               /\ trace'[Len(trace')].exc = "None"

\* C17: in one loadModel call no Import object is held by two frames or
\* twice by one, the fetch of an Import is attempted at most once and, when
\* loadModel returns, was attempted once; an Import that was attempted is
\* in no frame any more; a slot is written only by the
\* step whose fetch for that Import succeeded, with the model of the text
\* fetched, and a written slot is never written again.
C17_ImportOnce == []C17_OnceEach /\ [][C17_SlotWrittenOnce]_vars

\* Four Imports were attempted, of which one failed, and three slots are
\* written.
C17_Witness ==
    /\ pc = "done"
    /\ Len(trace) = 4
    /\ \E j \in 1..Len(trace) : trace[j].exc # "None"
    /\ Cardinality({p \in Ids : imported[p] # "None"}) = 3

(* C18 *)

C18_FramesNonEmpty ==
    \A n \in 1..Len(importq) : importq[n].imports # <<>>

C18_PushIffImports ==
    /\ (pc = "start" /\ model' # "None" /\ pc' # "error") =>
           /\ importq' # <<>> <=> Doc(model').hrefs # <<>>
           /\ Len(importq') <= 1
    /\ (pc = "for" /\ imports # <<>>) =>
           IF loadURL(urljoin(base, Head(imports).href)).exc = "None"
                 /\ pc' # "error"
           THEN /\ Len(importq') = Len(importq) + 1
                       <=> Doc(createFromText(base')).hrefs # <<>>
                /\ Len(importq') = Len(importq) + 1 \/ importq' = importq
           ELSE importq' = importq
    /\ pc \notin {"start", "for"} => Len(importq') <= Len(importq)

C18_NoImportsRoot ==
    (model # "None" /\ Doc(model).hrefs = <<>>) =>
        /\ pc \in {"while", "done"}
        /\ importq = <<>>
        /\ imports = <<>>
        /\ trace = <<>>
        /\ urlopened = {model_url}
        /\ \A p \in Ids : imported[p] = "None"

\* C18: the step that instantiates a model whose imports can be enumerated
\* appends a frame exactly when the document declares an import, and no
\* other step appends one, so no queued frame is empty; for a root that
\* declares no import the queue stays empty to the end of the call, nothing
\* but the root is fetched, and the root returned has no Import.
C18_FrameIffImports ==
    /\ []C18_FramesNonEmpty
    /\ [][C18_PushIffImports]_vars
    /\ []C18_NoImportsRoot

\* loadModel returned a root without imports: only the root was fetched.
C18_Witness ==
    /\ pc = "done"
    /\ model # "None"
    /\ Doc(model).hrefs = <<>>
    /\ urlopened = {model_url}
    /\ trace = <<>>

-----------------------------------------------------------------------------
(* C19 *)

\* The number of the advance call that first returns None.
firstNone(items) ==
    CHOOSE n \in 1..(Len(items) + 1) :
        /\ advance(items, n) = None
        /\ \A m \in 1..(n - 1) : advance(items, m) # None

least(a, b) == IF a <= b THEN a ELSE b

C19_OneAdvancePerElement ==
    /\ \A j \in 1..Len(gens) :
           /\ iters[gens[j].iter].pos =
                  least(gens[j].pulls, firstNone(target.items))
           /\ gens[j].out =
                  SubSeq(target.items, 1,
                         least(gens[j].pulls, firstNone(target.items) - 1))
           /\ gens[j].state = "finished"
                  <=> gens[j].pulls >= firstNone(target.items)
    /\ \A i \in 1..Len(iters) :
           (\A j \in 1..Len(gens) : gens[j].iter # i) => iters[i].pos = 0

C19_AdvanceOnRequest ==
    /\ Len(iters') > Len(iters) =>
           /\ iters'[Len(iters')].pos = 0
           /\ \A i \in 1..Len(iters) : iters'[i] = iters[i]
    /\ \A j \in 1..Len(gens) :
           gens'[j].pulls = gens[j].pulls + 1 =>
               /\ iters'[gens[j].iter].pos <= iters[gens[j].iter].pos + 1
               /\ Len(gens'[j].out) <= Len(gens[j].out) + 1

\* C19: a generator yields the values the advance method returns, in
\* order, up to and without the first None: the advance method is called
\* once for each element requested until it has returned None and not at
\* all by the makeGenerator call, and the number 0 and the empty string are
\* yielded like every other value.
C19_YieldsUpToSentinel ==
    []C19_OneAdvancePerElement /\ [][C19_AdvanceOnRequest]_vars

\* A generator has yielded the number 0 and the empty string and was ended
\* by the None its third advance call returned.
C19_Witness ==
    \E j \in 1..Len(gens) :
        /\ gens[j].out = <<Elem("0"), Elem("")>>
        /\ gens[j].state = "finished"
        /\ gens[j].pulls = 3
        /\ iters[gens[j].iter].pos = 3

(* C20 *)

\* C20 as stated: the advance member is looked up when the sequence is
\* first advanced, so a makeGenerator call on a target that has the
\* produce-iterator method does not raise, whatever its iterator lacks.
C20_AdvanceCheckedLazily ==
    (lastcall.made /\ lastcall.iname \in target.meth)
        => lastcall.error = NoError

C20_ChecksInOrder ==
    /\ lastcall.made =>
           /\ lastcall.iname \notin target.meth =>
                  /\ lastcall.error.exc = "TypeError"
                  /\ lastcall.error.name = lastcall.iname
                  /\ ~lastcall.invoked
           /\ (lastcall.iname \in target.meth
                   /\ lastcall.nname \notin target.imeth) =>
                  /\ lastcall.invoked
                  /\ lastcall.error.exc = "TypeError"
                  /\ lastcall.error.name = lastcall.nname
                  /\ lastcall.error.cls = target.icls
    /\ \A j \in 1..Len(gens) : gens[j].nfunc \in target.imeth

C20_RaisedByCall ==
    /\ lastcall' # lastcall =>
           /\ \A j \in 1..Len(gens) : gens'[j] = gens[j]
           /\ lastcall'.error.exc = "None" <=> Len(gens') = Len(gens) + 1
           /\ Len(gens') > Len(gens) =>
                  /\ gens'[Len(gens')].out = <<>>
                  /\ iters'[Len(iters')].pos = 0
    /\ (\E j \in 1..Len(gens) : gens'[j] # gens[j]) => lastcall' = lastcall

\* C20, amended: both checks are made by the makeGenerator call itself,
\* before any element is produced: first that of the produce-iterator
\* member on the target, then, once that method has been called, that of
\* the advance member on the object it returned.  A call on a target whose
\* iterator lacks a callable advance member raises the TypeError itself and
\* returns no generator; advancing a generator raises no such error.
C20_ChecksAtCall == []C20_ChecksInOrder /\ [][C20_RaisedByCall]_vars

\* The call invoked iterateImports and failed at once: the iterator has no
\* member nextImport at all.
C20_Witness ==
    /\ lastcall.made
    /\ lastcall.invoked
    /\ lastcall.nname = "nextImport"
    /\ "nextImport" \notin target.imeth \cup target.iattr
    /\ lastcall.error.exc = "TypeError"
    /\ lastcall.error.name = "nextImport"
    /\ Len(iters) = 1
    /\ gens = <<>>

====
